---- MODULE Spec2Model ----
(***************************************************************************)
(* A model of locknut: an encrypting wrapper (BoltLocknut) over a bbolt    *)
(* file, and its AES-GCM helpers (Encrypt, Decrypt, Cryptor).              *)
(*                                                                         *)
(* Byte slices are sequences of numbers in 0..255.  A nil slice that the   *)
(* code tests for (secret, data) is the value NilBytes.                    *)
(***************************************************************************)
EXTENDS Integers, Sequences, FiniteSets, TLC

VARIABLES
    constructed,  \* NewBoltLocknut has returned a handle
    secret,       \* bl.secret, the effective key
    batchMode,    \* bl.batchMode
    db,           \* bl.db: NoConn (nil), Conn, or Closed between goroutines
    fileLocked,   \* the engine holds the file lock of an open connection
    store,        \* the file: bucket -> (key -> stored bytes)
    saved,        \* history: bucket -> (key -> [plain, key] of the last save)
    last,         \* the last call on the handle and what it returned
    cryptor,      \* a Cryptor object: [plain, Cipher]
    cio,          \* the last call of the AES helpers and what it returned
    pc,           \* goroutine -> the statement it is at in its call
    job,          \* goroutine -> the call it is in
    held,         \* goroutine -> its openDB holds a connection not yet in bl.db
    used,         \* goroutine -> what its last transaction found in bl.db
    rpc,          \* GetDBBytes: where the calling goroutine is
    wpc,          \* GetDBBytes: where the goroutine it started is
    pipe,         \* GetDBBytes: the io.Pipe
    ret           \* GetDBBytes: what the call returned

vars == <<constructed, secret, batchMode, db, fileLocked, store,
          saved, last, cryptor, cio, pc, job, held, used, rpc, wpc, pipe, ret>>

handleVars == <<constructed, secret, batchMode, db, fileLocked,
                store, saved, last>>

cryptoVars == <<cryptor, cio>>

raceVars == <<pc, job, held, used>>

exportVars == <<rpc, wpc, pipe, ret>>

\* what a call made by one goroutine alone leaves as it is
stepVars == <<raceVars, exportVars>>

-----------------------------------------------------------------------------
(* Bounds and input sets *)

MaxDataLen == 0

NonceSize == 12
TagSize == 16
HashSize == 32

NilBytes == <<-1>>

IsNil(s) == s = NilBytes

\* the bytes of a slice (a nil slice has none)
Bytes(s) == IF IsNil(s) THEN <<>> ELSE s

RECURSIVE Sum(_)
Sum(s) == IF s = <<>> THEN 0 ELSE Head(s) + Sum(Tail(s))

\* all byte strings of one repeated byte up to a length
Repeat(b, n) == [i \in 1..n |-> b]

K32 == [i \in 1..32 |-> i]
K33 == [i \in 1..33 |-> i]
K16 == [i \in 1..16 |-> 2 * i]
ShortSecret == <<115>>

Secrets == {NilBytes, <<>>, ShortSecret, K32, K33}

Nonces == {Repeat(0, NonceSize), [i \in 1..NonceSize |-> i]}

\* what rand.Reader delivers to the Encrypt of Save and SaveBytes
SaveNonces == {[i \in 1..NonceSize |-> i]}

\* caller data for SaveBytes: nil, or 0..MaxDataLen bytes
RawData == {NilBytes} \cup {Repeat(7, n) : n \in 0..MaxDataLen}

\* caller data for Save: a nil interface, a string, a value JSON cannot encode
DataValues == {[kind |-> "nil", s |-> <<>>],
               [kind |-> "string", s |-> <<120>>],
               [kind |-> "chan", s |-> <<>>]}

\* "ta", "tay"
StoreKeys == {<<116, 97>>, <<116, 97, 121>>}
Keys == {<<>>} \cup StoreKeys

\* a wider key space for the prefix operations: "ta", "tay" and "te" are
\* stored; "", "t", "ta", "tax", "tay" and "te" are looked up
PrefixStoreKeys == StoreKeys \cup {<<116, 101>>}
PrefixKeys == {<<>>, <<116>>, <<116, 97, 120>>} \cup PrefixStoreKeys

\* the secrets of the prefix specification: a usable 32-byte key and a
\* 33-byte key that no cipher accepts
PrefixSecrets == {K32, K33}

Buckets == {"article"}
BucketNames == {"article", "jids"}

NoConn == "nil"
Conn == "open"

-----------------------------------------------------------------------------
(* crypto/sha256, crypto/aes and crypto/cipher as the sources use them *)

\* sha256.Sum256: a 32-byte digest of the bytes
Sum256(s) ==
    [i \in 1..HashSize |-> (Sum(Bytes(s)) * 31 + Len(Bytes(s)) * 17 + i * 7 + 99) % 256]

\* aes.NewCipher accepts keys of 16, 24 or 32 bytes
NewCipherOK(key) == ~IsNil(key) /\ Len(key) \in {16, 24, 32}

\* the model's stand-in for the AES-CTR key stream and the GHASH tag: both
\* depend on the key, the nonce and the position
KeyStream(key, nonce) == (Sum(key) + 3 * Sum(nonce)) % 256

GcmTag(key, nonce, ct) ==
    LET c == Sum(ct) + 7 * Len(ct)
    IN [j \in 1..TagSize |->
           (key[j] + 2 * key[Len(key) - j + 1] + nonce[((j - 1) % NonceSize) + 1]
               + c + j) % 256]

\* gcm.Seal(dst, nonce, plain, nil): dst followed by ciphertext and tag
GcmSeal(dst, key, nonce, plain) ==
    LET ks == KeyStream(key, nonce)
        ct == [i \in 1..Len(plain) |-> (plain[i] + ks + 5 * i) % 256]
    IN dst \o ct \o GcmTag(key, nonce, ct)

\* an open that decrypts without comparing the tag
GcmOpen_Unverified(key, nonce, body) ==
    LET n == IF Len(body) < TagSize THEN 0 ELSE Len(body) - TagSize
        ks == KeyStream(key, nonce)
    IN [plain |-> [i \in 1..n |-> (body[i] - ks - 5 * i) % 256], err |-> "nil"]

\* gcm.Open(nil, nonce, body, nil)
GcmOpen(key, nonce, body) ==
    IF Len(body) < TagSize
      THEN [plain |-> <<>>, err |-> "message authentication failed"]
      ELSE LET n == Len(body) - TagSize
               ct == SubSeq(body, 1, n)
               tag == SubSeq(body, n + 1, Len(body))
               ks == KeyStream(key, nonce)
           IN IF tag # GcmTag(key, nonce, ct)
                THEN [plain |-> <<>>, err |-> "message authentication failed"]
                ELSE [plain |-> [i \in 1..n |-> (ct[i] - ks - 5 * i) % 256],
                      err |-> "nil"]

\* Encrypt (package level): nonce || seal(plain); the nonce is what
\* io.ReadFull(rand.Reader, nonce) delivered
Encrypt(plain, key, nonce) ==
    IF ~NewCipherOK(key)
      THEN [out |-> <<>>, err |-> "invalid key size"]
      ELSE [out |-> GcmSeal(nonce, key, nonce, Bytes(plain)), err |-> "nil"]

\* Decrypt splitting the payload at the tag size instead of the nonce size
Decrypt_WrongSplit(ciphertext, key) ==
    IF ~NewCipherOK(key)
      THEN [plain |-> <<>>, err |-> "invalid key size"]
      ELSE IF Len(ciphertext) < NonceSize
        THEN [plain |-> <<>>, err |-> "ciphertext too short"]
        ELSE GcmOpen(key, SubSeq(ciphertext, 1, NonceSize),
                     SubSeq(ciphertext, TagSize + 1, Len(ciphertext)))

\* Decrypt (package level)
Decrypt(ciphertext, key) ==
    IF ~NewCipherOK(key)
      THEN [plain |-> <<>>, err |-> "invalid key size"]
      ELSE IF Len(ciphertext) < NonceSize
        THEN [plain |-> <<>>, err |-> "ciphertext too short"]
        ELSE GcmOpen(key, SubSeq(ciphertext, 1, NonceSize),
                     SubSeq(ciphertext, NonceSize + 1, Len(ciphertext)))

\* (c *Cryptor) Encrypt: the Cryptor after the call, and the error
CryptorEncrypt(c, key, nonce) ==
    IF ~NewCipherOK(key)
      THEN [c |-> c, err |-> "invalid key size"]
      ELSE [c |-> [c EXCEPT !.Cipher = GcmSeal(nonce, key, nonce, c.plain)],
            err |-> "nil"]

\* (c *Cryptor) Decrypt: the Cryptor after the call, the bytes and the error
CryptorDecrypt(c, key) ==
    IF ~NewCipherOK(key)
      THEN [c |-> c, plain |-> <<>>, err |-> "invalid key size"]
      ELSE IF Len(c.Cipher) < NonceSize
        THEN [c |-> c, plain |-> <<>>, err |-> "ciphertext too short"]
        ELSE LET o == GcmOpen(key, SubSeq(c.Cipher, 1, NonceSize),
                              SubSeq(c.Cipher, NonceSize + 1, Len(c.Cipher)))
             IN [c |-> [c EXCEPT !.plain = o.plain], plain |-> o.plain,
                 err |-> o.err]

-----------------------------------------------------------------------------
(* The handle: secret and connection *)

\* SetSecret: bl.secret after the call
EffectiveSecret(s) == IF Len(Bytes(s)) < 32 THEN Sum256(s) ELSE s

\* openDB without the early return for a live batch-mode connection
openDB_Reopen(bm, d, lk, outcome) ==
    IF outcome = "openErr"
      THEN [db |-> d, lock |-> lk, err |-> "open error", engine |-> outcome,
            opens |-> 0, closes |-> 0]
      ELSE IF outcome = "initErr"
        THEN [db |-> d, lock |-> FALSE, err |-> "update error",
              engine |-> outcome, opens |-> 1, closes |-> 1]
        ELSE [db |-> Conn, lock |-> TRUE, err |-> "nil", engine |-> outcome,
              opens |-> 1, closes |-> 0]

\* openDB: outcome is what the engine does when asked to open the file
\* ("ok", "openErr": bbolt.Open fails, "initErr": creating the buckets fails,
\* after which openDB closes the connection it got); engine is "none" when
\* the engine is not asked
openDB(bm, d, lk, outcome) ==
    IF bm /\ d # NoConn
      THEN [db |-> d, lock |-> lk, err |-> "nil", engine |-> "none",
            opens |-> 0, closes |-> 0]
      ELSE IF outcome = "openErr"
        THEN [db |-> d, lock |-> lk, err |-> "open error", engine |-> outcome,
              opens |-> 0, closes |-> 0]
        ELSE IF outcome = "initErr"
          THEN [db |-> d, lock |-> FALSE, err |-> "update error",
                engine |-> outcome, opens |-> 1, closes |-> 1]
          ELSE [db |-> Conn, lock |-> TRUE, err |-> "nil", engine |-> outcome,
                opens |-> 1, closes |-> 0]

\* closeDB with its batch test inverted
closeDB_Inverted(bm, d, lk) ==
    IF bm /\ d # NoConn
      THEN [db |-> NoConn, lock |-> FALSE, closes |-> 1]
      ELSE [db |-> d, lock |-> lk, closes |-> 0]

\* closeDB
closeDB(bm, d, lk) ==
    IF ~bm /\ d # NoConn
      THEN [db |-> NoConn, lock |-> FALSE, closes |-> 1]
      ELSE [db |-> d, lock |-> lk, closes |-> 0]

\* bbolt.Open takes the file lock and waits for it without a timeout
OpenWaits(bm, d, lk) == ~(bm /\ d # NoConn) /\ lk

-----------------------------------------------------------------------------
(* The engine: ordered keys, cursors, buckets *)

\* bytes.Compare(a, b) < 0
LexLess(a, b) ==
    \E i \in 1..(Len(b)) :
        /\ \A j \in 1..(i - 1) : j <= Len(a) /\ a[j] = b[j]
        /\ \/ i > Len(a)
           \/ a[i] < b[i]

\* a comparison of whole keys in place of the prefix test
HasPrefix_Equal(k, p) == k = p

\* bytes.HasPrefix(k, p)
HasPrefix(k, p) == Len(k) >= Len(p) /\ SubSeq(k, 1, Len(p)) = p

\* the keys of a bucket in cursor order
RECURSIVE SortedKeys(_)
SortedKeys(S) ==
    IF S = {} THEN <<>>
    ELSE LET m == CHOOSE k \in S : \A o \in S \ {k} : LexLess(k, o)
         IN <<m>> \o SortedKeys(S \ {m})

\* a cursor that starts at the first key whatever the prefix (cursor.First)
Seek_First(ks, p) == 1

\* cursor.Seek(p): the position of the first key >= p, past the end if none
Seek(ks, p) ==
    IF \E i \in 1..Len(ks) : ~LexLess(ks[i], p)
      THEN CHOOSE i \in 1..Len(ks) :
               /\ ~LexLess(ks[i], p)
               /\ \A j \in 1..(i - 1) : LexLess(ks[j], p)
      ELSE Len(ks) + 1

\* tx.Bucket(name): TRUE when the bucket exists
HasBucket(st, bucket) == bucket \in DOMAIN st


\* initbuckets in openDB: CreateBucketIfNotExists for every configured bucket
InitBuckets(st) ==
    [b \in (DOMAIN st) \cup Buckets |-> IF b \in DOMAIN st THEN st[b] ELSE <<>>]

\* a delete that takes every key starting with k along
Remove_Prefix(f, k) == [x \in {y \in DOMAIN f : ~HasPrefix(y, k)} |-> f[x]]

\* bkt.Put(key, value) / bkt.Delete(key) on an existing bucket
Put(f, k, v) == [x \in (DOMAIN f) \cup {k} |-> IF x = k THEN v ELSE f[x]]
Remove(f, k) == [x \in (DOMAIN f) \ {k} |-> f[x]]

\* json.Marshal of the modelled values: a string is quoted
Marshal(data) ==
    IF data.kind = "string"
      THEN [out |-> <<34>> \o data.s \o <<34>>, err |-> "nil"]
      ELSE [out |-> <<>>, err |-> "json: unsupported type"]

-----------------------------------------------------------------------------
(* What each operation does between openDB and the deferred closeDB.       *)
(* Each returns the store and history after it, the result and the error;  *)
(* err = "panic" is a nil-pointer panic (the transaction is rolled back    *)
(* and the deferred closeDB still runs).                                   *)

Ret(st, sv, res, err) == [store |-> st, saved |-> sv, res |-> res, err |-> err]

GetOneBody(st, sv, sec, bucket, key) ==
    IF key = <<>> THEN Ret(st, sv, <<>>, "ErrKeyInvalid")
    ELSE IF ~HasBucket(st, bucket) THEN Ret(st, sv, <<>>, "ErrBucketNotFound")
    ELSE LET ks == SortedKeys(DOMAIN st[bucket])
             i == Seek(ks, key)
         IN IF i <= Len(ks) /\ HasPrefix(ks[i], key)
              THEN IF ~IsNil(sec)
                     THEN LET d == Decrypt(st[bucket][ks[i]], sec)
                          IN IF d.err # "nil"
                               THEN Ret(st, sv, <<>>, "Decrypt error")
                               ELSE Ret(st, sv, d.plain, "nil")
                     ELSE Ret(st, sv, st[bucket][ks[i]], "nil")
              ELSE Ret(st, sv, <<>>, "nil")

\* a scan that returns after the first record it finds
ScanPrefix_One(f, ks, i, prefix, sec, acc) ==
    IF i > Len(ks) \/ ~HasPrefix(ks[i], prefix) THEN [res |-> acc, err |-> "nil"]
    ELSE LET d == Decrypt(f[ks[i]], sec)
         IN IF d.err # "nil" THEN [res |-> acc, err |-> "Decrypt error"]
            ELSE [res |-> Put(acc, ks[i], d.plain), err |-> "nil"]

\* the loop of GetByPrefix from cursor position i; acc is the results map
RECURSIVE ScanPrefix(_, _, _, _, _, _)
ScanPrefix(f, ks, i, prefix, sec, acc) ==
    LET atEnd == i > Len(ks)
        k == IF atEnd THEN <<>> ELSE ks[i]
        v == IF atEnd THEN <<>> ELSE f[k]
    IN IF ~HasPrefix(k, prefix) THEN [res |-> acc, err |-> "nil"]
       ELSE IF Len(prefix) = 0 /\ Len(k) = 0 /\ Len(v) = 0
         THEN [res |-> acc, err |-> "nil"]
       ELSE IF ~IsNil(sec)
         THEN LET d == Decrypt(v, sec)
              IN IF d.err # "nil"
                   THEN [res |-> acc, err |-> "Decrypt error"]
                   ELSE ScanPrefix(f, ks, i + 1, prefix, sec, Put(acc, k, d.plain))
         ELSE ScanPrefix(f, ks, i + 1, prefix, sec, Put(acc, k, v))

GetByPrefixBody(st, sv, sec, bucket, prefix) ==
    IF ~HasBucket(st, bucket) THEN Ret(st, sv, <<>>, "ErrBucketNotFound")
    ELSE LET ks == SortedKeys(DOMAIN st[bucket])
             r == ScanPrefix(st[bucket], ks, Seek(ks, prefix), prefix, sec, <<>>)
         IN Ret(st, sv, r.res, r.err)

\* a key loop that runs to the end of the cursor without the prefix test
ScanKeys_ToEnd(ks, i, prefix, acc) == acc \o SubSeq(ks, i, Len(ks))

\* the loop of GetKeyList from cursor position i
RECURSIVE ScanKeys(_, _, _, _)
ScanKeys(ks, i, prefix, acc) ==
    IF i <= Len(ks) /\ HasPrefix(ks[i], prefix)
      THEN ScanKeys(ks, i + 1, prefix, Append(acc, ks[i]))
      ELSE acc

GetKeyListBody(st, sv, sec, bucket, prefix) ==
    IF ~HasBucket(st, bucket) THEN Ret(st, sv, <<>>, "ErrBucketNotFound")
    ELSE LET ks == SortedKeys(DOMAIN st[bucket])
         IN Ret(st, sv, ScanKeys(ks, Seek(ks, prefix), prefix, <<>>), "nil")

\* a save whose Put is kept although the call reports an encryption error
PutValue_NoRollback(st, sv, sec, bucket, key, value, nonce) ==
    LET e == Encrypt(value, sec, nonce)
    IN IF ~HasBucket(st, bucket) \/ key = <<>> THEN Ret(st, sv, <<>>, "panic")
       ELSE Ret([st EXCEPT ![bucket] = Put(@, key, e.out)],
                [sv EXCEPT ![bucket] = Put(@, key, [plain |-> value, key |-> sec])],
                <<>>, IF e.err # "nil" THEN "Encrypt error" ELSE "nil")

\* the part of Save and SaveBytes after the value is serialized
PutValue(st, sv, sec, bucket, key, value, nonce) ==
    LET e == IF ~IsNil(sec) THEN Encrypt(value, sec, nonce)
                            ELSE [out |-> value, err |-> "nil"]
    IN IF e.err # "nil" THEN Ret(st, sv, <<>>, "Encrypt error")
       ELSE IF ~HasBucket(st, bucket) THEN Ret(st, sv, <<>>, "panic")
       ELSE IF key = <<>> THEN Ret(st, sv, <<>>, "ErrKeyRequired")
       ELSE Ret([st EXCEPT ![bucket] = Put(@, key, e.out)],
                [sv EXCEPT ![bucket] = Put(@, key, [plain |-> value, key |-> sec])],
                <<>>, "nil")

SaveBody(st, sv, sec, bucket, key, data, nonce) ==
    IF data.kind = "nil" THEN Ret(st, sv, <<>>, "data is nil")
    ELSE LET m == Marshal(data)
         IN IF m.err # "nil" THEN Ret(st, sv, <<>>, m.err)
            ELSE PutValue(st, sv, sec, bucket, key, m.out, nonce)

SaveBytesBody(st, sv, sec, bucket, key, data, nonce) ==
    IF IsNil(data) THEN Ret(st, sv, <<>>, "data is nil")
    ELSE PutValue(st, sv, sec, bucket, key, data, nonce)

DeleteBody(st, sv, bucket, key) ==
    IF key = <<>> THEN Ret(st, sv, <<>>, "cannot delete, key is nil")
    ELSE IF ~HasBucket(st, bucket) THEN Ret(st, sv, <<>>, "panic")
    ELSE Ret([st EXCEPT ![bucket] = Remove(@, key)],
             [sv EXCEPT ![bucket] = Remove(@, key)], <<>>, "nil")


-----------------------------------------------------------------------------
(* The calls on the handle *)

EngineOutcomes == {"ok", "openErr", "initErr"}

\* the engine answers only a call whose openDB reaches bbolt.Open: in batch
\* mode with a connection held openDB returns before asking it
EngineAsked(bm, d) == IF bm /\ d # NoConn THEN {"ok"} ELSE EngineOutcomes

NoArgs == [bucket |-> "-", key |-> <<>>]

\* the record of a call: what was asked, what came back, how many engine
\* opens and closes it made, the connection before it, and whether it
\* dereferenced a nil connection
Called(op, engine, args, res, err, opens, closes, nilUse) ==
    [op |-> op, engine |-> engine, bucket |-> args.bucket, key |-> args.key,
     res |-> res, err |-> err, opens |-> opens, closes |-> closes,
     dbBefore |-> db, nilUse |-> nilUse]

\* openDB returned an error: the operation returns it at once
OpenFailed(op, o) ==
    /\ db' = o.db
    /\ fileLocked' = o.lock
    /\ last' = Called(op, o.engine, NoArgs, <<>>, o.err, o.opens, o.closes, FALSE)
    /\ UNCHANGED <<store, saved>>

\* openDB succeeded, the body returned r, and the deferred closeDB runs
Finished(op, o, args, r) ==
    LET c == closeDB(batchMode, o.db, o.lock)
    IN /\ db' = c.db
       /\ fileLocked' = c.lock
       /\ store' = r.store
       /\ saved' = r.saved
       /\ last' = Called(op, o.engine, args, r.res, r.err, o.opens,
                         o.closes + c.closes, FALSE)

\* the store once openDB has run its initbuckets
Opened(o) == IF o.opens = 1 /\ o.err = "nil" THEN InitBuckets(store) ELSE store

NewBoltLocknutOn(SS) ==
    /\ ~constructed
    /\ \E files \in {"ok", "badPath", "notRegular"}, s \in SS,
          mode \in BOOLEAN, outcome \in EngineOutcomes :
         IF files # "ok"
           THEN /\ last' = Called("NewBoltLocknut", "none", NoArgs, <<>>,
                                  IF files = "badPath" THEN "ErrPathInvalid"
                                                       ELSE "ErrFileNameInvalid",
                                  0, 0, FALSE)
                /\ UNCHANGED <<constructed, secret, batchMode, db,
                               fileLocked, store, saved>>
           ELSE LET o == openDB(mode, NoConn, fileLocked, outcome)
                    c == closeDB(mode, o.db, o.lock)
                IN IF o.err # "nil"
                     THEN /\ last' = Called("NewBoltLocknut", o.engine, NoArgs,
                                            <<>>, o.err, o.opens, o.closes, FALSE)
                          /\ UNCHANGED <<constructed, secret,
                                         batchMode, db, fileLocked, store, saved>>
                     ELSE /\ constructed' = TRUE
                          /\ secret' = EffectiveSecret(s)
                          /\ batchMode' = mode
                          /\ db' = c.db
                          /\ fileLocked' = c.lock
                          /\ store' = InitBuckets(store)
                          /\ saved' = InitBuckets(saved)
                          /\ last' = Called("NewBoltLocknut", o.engine, NoArgs,
                                            <<>>, "nil", o.opens,
                                            o.closes + c.closes, FALSE)
    /\ UNCHANGED <<cryptoVars, stepVars>>

\* NewBoltLocknut with its secret drawn from Secrets
NewBoltLocknut == NewBoltLocknutOn(Secrets)

SetSecretOn(SS) ==
    /\ constructed
    /\ \E s \in SS : secret' = EffectiveSecret(s)
    /\ last' = Called("SetSecret", "none", NoArgs, <<>>, "nil", 0, 0, FALSE)
    /\ UNCHANGED <<constructed, batchMode, db, fileLocked, store, saved>>
    /\ UNCHANGED <<cryptoVars, stepVars>>

\* SetSecret with its secret drawn from Secrets
SetSecret == SetSecretOn(Secrets)

SetBatchMode ==
    /\ constructed
    /\ \E mode \in BOOLEAN :
         LET c == IF ~mode THEN closeDB(mode, db, fileLocked)
                           ELSE [db |-> db, lock |-> fileLocked, closes |-> 0]
         IN /\ batchMode' = mode
            /\ db' = c.db
            /\ fileLocked' = c.lock
            /\ last' = Called("SetBatchMode", "none", NoArgs, <<>>, "nil", 0,
                              c.closes, FALSE)
    /\ UNCHANGED <<constructed, secret, store, saved>>
    /\ UNCHANGED <<cryptoVars, stepVars>>

\* the frame of GetByPrefix, GetKeyList, GetOne, Save, SaveBytes and Delete:
\* openDB, return on its error, defer closeDB, then the body
GetOneOn(KS) ==
    /\ constructed /\ ~OpenWaits(batchMode, db, fileLocked)
    /\ \E outcome \in EngineAsked(batchMode, db) :
         LET o == openDB(batchMode, db, fileLocked, outcome)
         IN IF o.err # "nil" THEN OpenFailed("GetOne", o)
            ELSE \E bucket \in BucketNames, key \in KS :
                   Finished("GetOne", o, [bucket |-> bucket, key |-> key],
                            GetOneBody(Opened(o), saved, secret, bucket, key))
    /\ UNCHANGED <<constructed, secret, batchMode>>
    /\ UNCHANGED <<cryptoVars, stepVars>>

\* GetOne with its keys drawn from Keys
GetOne == GetOneOn(Keys)

GetByPrefixOn(KS) ==
    /\ constructed /\ ~OpenWaits(batchMode, db, fileLocked)
    /\ \E outcome \in EngineAsked(batchMode, db) :
         LET o == openDB(batchMode, db, fileLocked, outcome)
         IN IF o.err # "nil" THEN OpenFailed("GetByPrefix", o)
            ELSE \E bucket \in BucketNames, prefix \in KS :
                   Finished("GetByPrefix", o, [bucket |-> bucket, key |-> prefix],
                            GetByPrefixBody(Opened(o), saved, secret, bucket, prefix))
    /\ UNCHANGED <<constructed, secret, batchMode>>
    /\ UNCHANGED <<cryptoVars, stepVars>>

\* GetByPrefix with its keys drawn from Keys
GetByPrefix == GetByPrefixOn(Keys)

GetKeyListOn(KS) ==
    /\ constructed /\ ~OpenWaits(batchMode, db, fileLocked)
    /\ \E outcome \in EngineAsked(batchMode, db) :
         LET o == openDB(batchMode, db, fileLocked, outcome)
         IN IF o.err # "nil" THEN OpenFailed("GetKeyList", o)
            ELSE \E bucket \in BucketNames, prefix \in KS :
                   Finished("GetKeyList", o, [bucket |-> bucket, key |-> prefix],
                            GetKeyListBody(Opened(o), saved, secret, bucket, prefix))
    /\ UNCHANGED <<constructed, secret, batchMode>>
    /\ UNCHANGED <<cryptoVars, stepVars>>

\* GetKeyList with its keys drawn from Keys
GetKeyList == GetKeyListOn(Keys)

SaveOn(KS) ==
    /\ constructed /\ ~OpenWaits(batchMode, db, fileLocked)
    /\ \E outcome \in EngineAsked(batchMode, db) :
         LET o == openDB(batchMode, db, fileLocked, outcome)
         IN IF o.err # "nil" THEN OpenFailed("Save", o)
            ELSE \E bucket \in BucketNames, key \in KS, data \in DataValues,
                    nonce \in SaveNonces :
                   Finished("Save", o, [bucket |-> bucket, key |-> key],
                            SaveBody(Opened(o), saved, secret, bucket, key, data,
                                     nonce))
    /\ UNCHANGED <<constructed, secret, batchMode>>
    /\ UNCHANGED <<cryptoVars, stepVars>>

\* Save with its keys drawn from Keys
Save == SaveOn(Keys)

SaveBytesOn(KS) ==
    /\ constructed /\ ~OpenWaits(batchMode, db, fileLocked)
    /\ \E outcome \in EngineAsked(batchMode, db) :
         LET o == openDB(batchMode, db, fileLocked, outcome)
         IN IF o.err # "nil" THEN OpenFailed("SaveBytes", o)
            ELSE \E bucket \in BucketNames, key \in KS, data \in RawData,
                    nonce \in SaveNonces :
                   Finished("SaveBytes", o, [bucket |-> bucket, key |-> key],
                            SaveBytesBody(Opened(o), saved, secret, bucket, key,
                                          data, nonce))
    /\ UNCHANGED <<constructed, secret, batchMode>>
    /\ UNCHANGED <<cryptoVars, stepVars>>

\* SaveBytes with its keys drawn from Keys
SaveBytes == SaveBytesOn(Keys)

DeleteOn(KS) ==
    /\ constructed /\ ~OpenWaits(batchMode, db, fileLocked)
    /\ \E outcome \in EngineAsked(batchMode, db) :
         LET o == openDB(batchMode, db, fileLocked, outcome)
         IN IF o.err # "nil" THEN OpenFailed("Delete", o)
            ELSE \E bucket \in BucketNames, key \in KS :
                   Finished("Delete", o, [bucket |-> bucket, key |-> key],
                            DeleteBody(Opened(o), saved, bucket, key))
    /\ UNCHANGED <<constructed, secret, batchMode>>
    /\ UNCHANGED <<cryptoVars, stepVars>>

\* Delete with its keys drawn from Keys
Delete == DeleteOn(Keys)

\* GetDBBytes calls bl.db.View without openDB or closeDB: with bl.db nil it
\* dereferences a nil pointer; otherwise it returns the file's bytes
GetDBBytes ==
    /\ constructed
    /\ IF db = NoConn
         THEN last' = Called("GetDBBytes", "none", NoArgs, <<>>, "panic", 0, 0, TRUE)
         ELSE last' = Called("GetDBBytes", "none", NoArgs, store, "nil", 0, 0, FALSE)
    /\ UNCHANGED <<constructed, secret, batchMode, db, fileLocked,
                   store, saved>>
    /\ UNCHANGED <<cryptoVars, stepVars>>

-----------------------------------------------------------------------------
(* The calls of the AES helpers *)

AESKeys == {K32, Sum256(<<>>), K16, K33, ShortSecret}
RandKeys == {K32, Sum256(<<>>)}
Plains == {Repeat(7, n) : n \in 0..(MaxDataLen + 1)}

NoCall ==
    [op |-> "none", key |-> NilBytes, in |-> <<>>, out |-> <<>>, err |-> "nil",
     payload |-> <<>>, pKey |-> NilBytes, pPlain |-> <<>>,
     encKey |-> NilBytes, encPlain |-> <<>>]

NewCryptor ==
    /\ \E plain \in Plains : cryptor' = [plain |-> plain, Cipher |-> <<>>]
    /\ cio' = [cio EXCEPT !.op = "NewCryptor", !.key = NilBytes, !.in = <<>>,
                          !.out = <<>>, !.err = "nil", !.encKey = NilBytes,
                          !.encPlain = <<>>]
    /\ UNCHANGED <<handleVars, stepVars>>

CryptorEncryptCall ==
    /\ \E key \in AESKeys, nonce \in Nonces :
         LET r == CryptorEncrypt(cryptor, key, nonce)
         IN /\ cryptor' = r.c
            /\ cio' = [cio EXCEPT !.op = "Cryptor.Encrypt", !.key = key,
                          !.in = cryptor.plain, !.out = <<>>, !.err = r.err,
                          !.encKey = IF r.err = "nil" THEN key ELSE @,
                          !.encPlain = IF r.err = "nil" THEN cryptor.plain ELSE @]
    /\ UNCHANGED <<handleVars, stepVars>>

\* GetRandKey, then c.Encrypt(key) with its error dropped
EncryptWithNewKey ==
    /\ \E key \in RandKeys, nonce \in Nonces :
         LET r == CryptorEncrypt(cryptor, key, nonce)
         IN /\ cryptor' = r.c
            /\ cio' = [cio EXCEPT !.op = "EncryptWithNewKey", !.key = key,
                          !.in = cryptor.plain, !.out = key, !.err = "nil",
                          !.encKey = IF r.err = "nil" THEN key ELSE @,
                          !.encPlain = IF r.err = "nil" THEN cryptor.plain ELSE @]
    /\ UNCHANGED <<handleVars, stepVars>>

CryptorDecryptCall ==
    /\ \E key \in AESKeys :
         LET r == CryptorDecrypt(cryptor, key)
         IN /\ cryptor' = r.c
            /\ cio' = [cio EXCEPT !.op = "Cryptor.Decrypt", !.key = key,
                          !.in = cryptor.Cipher, !.out = r.plain, !.err = r.err]
    /\ UNCHANGED <<handleVars, stepVars>>

EncryptCall ==
    /\ \E plain \in Plains, key \in AESKeys, nonce \in Nonces :
         LET r == Encrypt(plain, key, nonce)
         IN cio' = [cio EXCEPT !.op = "Encrypt", !.key = key, !.in = plain,
                       !.out = r.out, !.err = r.err,
                       !.payload = IF r.err = "nil" THEN r.out ELSE @,
                       !.pKey = IF r.err = "nil" THEN key ELSE @,
                       !.pPlain = IF r.err = "nil" THEN plain ELSE @]
    /\ UNCHANGED <<cryptor, handleVars, stepVars>>

\* Decrypt of the payload of the last successful Encrypt
DecryptCall ==
    /\ ~IsNil(cio.pKey)
    /\ \E key \in AESKeys :
         LET r == Decrypt(cio.payload, key)
         IN cio' = [cio EXCEPT !.op = "Decrypt", !.key = key, !.in = cio.payload,
                       !.out = r.plain, !.err = r.err]
    /\ UNCHANGED <<cryptor, handleVars, stepVars>>

-----------------------------------------------------------------------------
(* The calls statement by statement, for goroutines that share one handle. *)
(* A read of bl.db sees what the last write left there; where the          *)
(* unsynchronised read may also see the pointer written before, both       *)
(* outcomes are possible.                                                  *)

\* GetDBBytes before any call of it
NoPipe == [closed |-> FALSE, sent |-> 0, err |-> "nil"]
NoReturn == [bytes |-> 0, err |-> "nil"]

\* bl.db holding a pointer to a connection that has been closed
Closed == "closed"

Procs == {"a", "b"}

NoUse == [open |-> "none", tx |-> "none", close |-> "none"]

\* what the steps of a call leave alone besides the fields they name
StepFrame == <<constructed, secret, saved, last, cryptoVars, exportVars>>

\* a goroutine enters one of the calls js: a bracketed operation ("op"),
\* SetBatchMode(true) ("batchOn") or SetBatchMode(false) ("batchOff")
StartCall(p, js) ==
    /\ constructed /\ pc[p] = "idle"
    /\ \E j \in js :
         /\ job' = [job EXCEPT ![p] = j]
         /\ pc' = [pc EXCEPT ![p] = IF j = "op" THEN "openCheck" ELSE "setFlag"]
    /\ used' = [used EXCEPT ![p] = NoUse]
    /\ UNCHANGED <<held, batchMode, db, fileLocked, store, StepFrame>>

\* SetBatchMode: bl.batchMode = mode, then closeDB when the mode is false
SetFlag(p) ==
    /\ pc[p] = "setFlag"
    /\ batchMode' = (job[p] = "batchOn")
    /\ pc' = [pc EXCEPT ![p] = IF job[p] = "batchOff" THEN "closeCheck" ELSE "idle"]
    /\ UNCHANGED <<job, held, used, db, fileLocked, store, StepFrame>>

\* openDB: return at once when batch mode holds a connection
OpenCheck(p) ==
    /\ pc[p] = "openCheck"
    /\ IF batchMode /\ db # NoConn
         THEN /\ pc' = [pc EXCEPT ![p] = "tx"]
              /\ used' = [used EXCEPT ![p].open = "found"]
         ELSE /\ pc' = [pc EXCEPT ![p] = "engineOpen"]
              /\ UNCHANGED used
    /\ UNCHANGED <<job, held, batchMode, db, fileLocked, store, StepFrame>>

\* openDB: bbolt.Open, which waits for the file lock, and initbuckets on
\* the new connection; a failure returns the error from the call
EngineOpen(p) ==
    /\ pc[p] = "engineOpen" /\ ~fileLocked
    /\ \E outcome \in EngineOutcomes :
         IF outcome = "ok"
           THEN /\ fileLocked' = TRUE
                /\ held' = [held EXCEPT ![p] = TRUE]
                /\ store' = InitBuckets(store)
                /\ pc' = [pc EXCEPT ![p] = "assign"]
           ELSE /\ pc' = [pc EXCEPT ![p] = "idle"]
                /\ UNCHANGED <<fileLocked, held, store>>
    /\ UNCHANGED <<job, used, batchMode, db, StepFrame>>

\* openDB: bl.db = db
Assign(p) ==
    /\ pc[p] = "assign"
    /\ db' = Conn
    /\ held' = [held EXCEPT ![p] = FALSE]
    /\ used' = [used EXCEPT ![p].open = "opened"]
    /\ pc' = [pc EXCEPT ![p] = "tx"]
    /\ UNCHANGED <<job, batchMode, fileLocked, store, StepFrame>>

\* a transaction that looks at bl.db again and opens a connection itself
\* when the handle holds none
Transaction_Guarded(p) ==
    /\ pc[p] = "tx"
    /\ used' = [used EXCEPT ![p].tx = "live"]
    /\ pc' = [pc EXCEPT ![p] = "closeCheck"]
    /\ UNCHANGED <<job, held, batchMode, db, fileLocked, store, StepFrame>>

\* bl.db.update(...) / bl.db.view(...): the transaction runs on what bl.db
\* holds now: a live connection, a closed one (ErrDatabaseNotOpen), or nil
\* (a nil-pointer panic); a goroutine that read the pointer in openDB's
\* test may use that pointer, whose connection is closed by the time bl.db
\* is nil; the deferred closeDB follows in every case
Transaction(p) ==
    /\ pc[p] = "tx"
    /\ \E found \in IF db = Conn THEN {"live"}
                     ELSE IF db = Closed THEN {"closed"}
                     ELSE IF used[p].open = "found" THEN {"nil", "closed"}
                     ELSE {"nil"} :
         used' = [used EXCEPT ![p].tx = found]
    /\ pc' = [pc EXCEPT ![p] = "closeCheck"]
    /\ UNCHANGED <<job, held, batchMode, db, fileLocked, store, StepFrame>>

\* closeDB: the test !bl.batchMode && bl.db != nil
CloseCheck(p) ==
    /\ pc[p] = "closeCheck"
    /\ pc' = [pc EXCEPT ![p] = IF ~batchMode /\ db # NoConn THEN "closeEngine"
                                                            ELSE "idle"]
    /\ UNCHANGED <<job, held, used, batchMode, db, fileLocked, store, StepFrame>>

\* closeDB: bl.db.Close(); Close waits for an open read transaction, is
\* harmless on a closed connection and panics on nil; when bl.db became nil
\* after closeDB's test, the pointer the test read closes its connection if
\* that one is still open (no goroutine is between bbolt.Open and bl.db = db,
\* yet the file is locked)
CloseEngine(p) ==
    /\ pc[p] = "closeEngine"
    /\ ~(db = Conn /\ wpc = "writing")
    /\ \/ /\ db = Conn
          /\ db' = Closed /\ fileLocked' = FALSE
          /\ pc' = [pc EXCEPT ![p] = "closeNil"]
          /\ UNCHANGED used
       \/ /\ db # Conn
          /\ fileLocked' = IF db = NoConn
                           THEN fileLocked /\ \E q \in Procs : held[q]
                           ELSE fileLocked
          /\ pc' = [pc EXCEPT ![p] = "closeNil"]
          /\ UNCHANGED <<db, used>>
       \/ /\ db = NoConn
          /\ used' = [used EXCEPT ![p].close = "nil"]
          /\ pc' = [pc EXCEPT ![p] = "idle"]
          /\ UNCHANGED <<db, fileLocked>>
    /\ UNCHANGED <<job, held, batchMode, store, StepFrame>>

\* closeDB: bl.db = nil
CloseNil(p) ==
    /\ pc[p] = "closeNil"
    /\ db' = NoConn
    /\ pc' = [pc EXCEPT ![p] = "idle"]
    /\ UNCHANGED <<job, held, used, batchMode, fileLocked, store, StepFrame>>

-----------------------------------------------------------------------------
(* GetDBBytes statement by statement: the calling goroutine, the goroutine *)
(* it starts, and the pipe between them.  pipe.sent counts the writes the  *)
(* reader has taken, pipe.err is what db.View returned in the goroutine.   *)

\* the number of writes tx.WriteTo makes to copy the file
ExportWrites == 2

ExportFrame == <<handleVars, cryptoVars, raceVars>>

\* r, w := io.Pipe(); go bl.db.View(...): the method value is taken from
\* bl.db in the caller, where a nil bl.db panics; then buf.ReadFrom(r)
GetDBBytesCall ==
    /\ constructed /\ rpc # "reading"
    /\ rpc' = IF db = NoConn THEN "panicked" ELSE "reading"
    /\ wpc' = IF db = NoConn THEN "none" ELSE "begin"
    /\ pipe' = NoPipe
    /\ ret' = NoReturn
    /\ UNCHANGED ExportFrame

\* db.View begins a read transaction, or returns ErrDatabaseNotOpen without
\* calling the function when the connection has been closed (the
\* connection the goroutine holds is open while bl.db is Conn: no step of
\* this specification opens another)
ViewBegin ==
    /\ wpc = "begin"
    /\ IF db = Conn
         THEN wpc' = "writing" /\ UNCHANGED pipe
         ELSE /\ wpc' = "done"
              /\ pipe' = [pipe EXCEPT !.err = "database not open"]
    /\ UNCHANGED <<rpc, ret, ExportFrame>>

\* tx.WriteTo(w): one write to the pipe, complete when the reader took it
WriteChunk ==
    /\ wpc = "writing" /\ rpc = "reading" /\ pipe.sent < ExportWrites
    /\ pipe' = [pipe EXCEPT !.sent = @ + 1]
    /\ UNCHANGED <<rpc, wpc, ret, ExportFrame>>

\* tx.WriteTo fails: the function returns the error after the deferred
\* w.Close(), View returns it, and the go statement drops it
WriteFails ==
    /\ wpc = "writing" /\ pipe.sent < ExportWrites
    /\ pipe' = [pipe EXCEPT !.closed = TRUE, !.err = "write error"]
    /\ wpc' = "done"
    /\ UNCHANGED <<rpc, ret, ExportFrame>>

\* tx.WriteTo has copied the file: the deferred w.Close()
WriteDone ==
    /\ wpc = "writing" /\ pipe.sent = ExportWrites
    /\ pipe' = [pipe EXCEPT !.closed = TRUE]
    /\ wpc' = "done"
    /\ UNCHANGED <<rpc, ret, ExportFrame>>

\* buf.ReadFrom(r) sees the end of the pipe; return buf.Bytes()
ReadFromReturns ==
    /\ rpc = "reading" /\ pipe.closed
    /\ ret' = [bytes |-> pipe.sent, err |-> "nil"]
    /\ rpc' = "returned"
    /\ UNCHANGED <<wpc, pipe, ExportFrame>>

-----------------------------------------------------------------------------
(* Specifications *)

Init ==
    /\ constructed = FALSE
    /\ secret = NilBytes
    /\ batchMode = FALSE
    /\ db = NoConn
    /\ fileLocked = FALSE
    /\ store = <<>>
    /\ saved = <<>>
    /\ last = [op |-> "none", engine |-> "none", bucket |-> "-", key |-> <<>>,
               res |-> <<>>, err |-> "nil", opens |-> 0, closes |-> 0,
               dbBefore |-> NoConn, nilUse |-> FALSE]
    /\ cryptor = [plain |-> <<>>, Cipher |-> <<>>]
    /\ cio = NoCall
    /\ pc = [p \in Procs |-> "idle"]
    /\ job = [p \in Procs |-> "none"]
    /\ held = [p \in Procs |-> FALSE]
    /\ used = [p \in Procs |-> NoUse]
    /\ rpc = "idle"
    /\ wpc = "none"
    /\ pipe = NoPipe
    /\ ret = NoReturn

Next ==
    \/ NewBoltLocknut
    \/ SetSecret
    \/ SetBatchMode
    \/ GetOne
    \/ GetByPrefix
    \/ GetKeyList
    \/ Save
    \/ SaveBytes
    \/ Delete
    \/ GetDBBytes

Spec == Init /\ [][Next]_vars

NextAES ==
    \/ NewCryptor
    \/ CryptorEncryptCall
    \/ EncryptWithNewKey
    \/ CryptorDecryptCall
    \/ EncryptCall
    \/ DecryptCall

SpecAES == Init /\ [][NextAES]_vars

\* goroutine "a" makes bracketed operations while goroutine "b" switches
\* batch mode on and off, on a handle constructed beforehand
NextRace ==
    \/ NewBoltLocknut
    \/ StartCall("a", {"op"})
    \/ StartCall("b", {"batchOn", "batchOff"})
    \/ \E p \in Procs : SetFlag(p)
    \/ \E p \in Procs : OpenCheck(p)
    \/ \E p \in Procs : EngineOpen(p)
    \/ \E p \in Procs : Assign(p)
    \/ \E p \in Procs : Transaction(p)
    \/ \E p \in Procs : CloseCheck(p)
    \/ \E p \in Procs : CloseEngine(p)
    \/ \E p \in Procs : CloseNil(p)

SpecRace == Init /\ [][NextRace]_vars

\* SetBatchMode called while no other call is in progress: how a handle
\* enters batch mode (with or without a live connection) before two
\* operations run on it concurrently
SetBatchModeAtRest ==
    /\ \A p \in Procs : pc[p] = "idle"
    /\ SetBatchMode

\* two goroutines call bracketed operations on the same handle; every
\* statement of openDB and closeDB is a step of its own
NextPair ==
    \/ NewBoltLocknut
    \/ SetBatchModeAtRest
    \/ \E p \in Procs : StartCall(p, {"op"})
    \/ \E p \in Procs : OpenCheck(p)
    \/ \E p \in Procs : EngineOpen(p)
    \/ \E p \in Procs : Assign(p)
    \/ \E p \in Procs : Transaction(p)
    \/ \E p \in Procs : CloseCheck(p)
    \/ \E p \in Procs : CloseEngine(p)
    \/ \E p \in Procs : CloseNil(p)

SpecPair == Init /\ [][NextPair]_vars

\* GetDBBytes in steps while other goroutines call SetBatchMode
NextExport ==
    \/ NewBoltLocknut
    \/ \E p \in Procs : StartCall(p, {"batchOn", "batchOff"})
    \/ \E p \in Procs : SetFlag(p)
    \/ \E p \in Procs : CloseCheck(p)
    \/ \E p \in Procs : CloseEngine(p)
    \/ \E p \in Procs : CloseNil(p)
    \/ GetDBBytesCall
    \/ ViewBegin
    \/ WriteChunk
    \/ WriteFails
    \/ WriteDone
    \/ ReadFromReturns

SpecExport == Init /\ [][NextExport]_vars

\* the handle over the wider key space
NextPrefix ==
    \/ NewBoltLocknutOn(PrefixSecrets)
    \/ SetSecretOn(PrefixSecrets)
    \/ GetOneOn(PrefixKeys)
    \/ GetByPrefixOn(PrefixKeys)
    \/ GetKeyListOn(PrefixKeys)
    \/ SaveOn(PrefixStoreKeys)
    \/ SaveBytesOn(PrefixStoreKeys)
    \/ DeleteOn(PrefixKeys)

SpecPrefix == Init /\ [][NextPrefix]_vars


-----------------------------------------------------------------------------
(* Properties *)

\* the operations that call openDB and defer closeDB
BracketedOps == {"GetOne", "GetByPrefix", "GetKeyList", "Save", "SaveBytes", "Delete"}

\* every public operation on a handle
PublicOps == BracketedOps \cup {"GetDBBytes"}

\* the last call's key is stored in the last call's bucket
LastKeyStored ==
    /\ last.bucket \in DOMAIN store
    /\ last.key \in DOMAIN store[last.bucket]

\* C1: with batch mode off, between calls the handle holds no connection
\* and the engine's file lock is free, whatever the calls returned.
ConnClosedOutsideBatch == ~batchMode => (db = NoConn /\ ~fileLocked)

\* C1 witness: a GetOne that failed to decrypt has returned, batch mode off
ConnClosedAfterDecryptError ==
    /\ constructed /\ ~batchMode
    /\ last.op = "GetOne" /\ last.err = "Decrypt error"
    /\ db = NoConn

\* C2: a bracketed call in batch mode that finds a live connection performs
\* no engine open and no close and leaves the connection live, whatever it
\* returns; a call that finds none in batch mode opens once and does not
\* close; with batch mode off a call performs exactly one open and exactly
\* one close (none of either when bbolt.Open itself fails).
OpenCloseCount ==
    last.op \in BracketedOps =>
        /\ (batchMode /\ last.dbBefore = Conn) =>
               (last.opens = 0 /\ last.closes = 0 /\ db = Conn)
        /\ (batchMode /\ last.dbBefore = NoConn /\ last.engine = "ok") =>
               (last.opens = 1 /\ last.closes = 0 /\ db = Conn)
        /\ ~batchMode =>
               /\ last.opens = last.closes
               /\ last.opens = IF last.engine = "openErr" THEN 0 ELSE 1

\* C2 witness: a Delete that panicked in batch mode left the connection live
BatchConnSurvivesPanic ==
    /\ batchMode /\ last.op = "Delete" /\ last.err = "panic"
    /\ last.dbBefore = Conn /\ db = Conn

\* C3: no public operation dereferences a nil connection, and every public
\* operation that finds no connection asks the engine for one.
NoNilConnectionUse ==
    last.op \in PublicOps =>
        /\ ~last.nilUse
        /\ last.dbBefore = NoConn => last.engine # "none"

\* C4: SetBatchMode(false) leaves no connection; SetBatchMode(true) changes
\* the batch flag alone; and the public operation that follows
\* SetBatchMode(true) leaves a connection open (unless the engine refuses to
\* open the file).
BatchModeToggle ==
    [][/\ (last'.op = "SetBatchMode" /\ ~batchMode') =>
              (db' = NoConn /\ ~fileLocked')
       /\ (last'.op = "SetBatchMode" /\ batchMode') =>
              UNCHANGED <<constructed, secret, db, fileLocked, store>>
       /\ (last.op = "SetBatchMode" /\ batchMode /\ last'.op \in PublicOps
              /\ last'.engine \notin {"openErr", "initErr"}) =>
              (db' = Conn /\ last'.closes = 0)]_vars

\* C5: the handle's effective key is 32 bytes long.
EffectiveKeyIs32 == constructed => Len(secret) = 32

\* C6: under a secret longer than 32 bytes a save does not fail to encrypt,
\* and GetOne of a stored key whose record was saved under a secret with
\* the same first 32 bytes returns the saved bytes.
LongSecretWorks ==
    Len(secret) > 32 =>
        /\ last.op \in {"Save", "SaveBytes"} => last.err # "Encrypt error"
        /\ (last.op = "GetOne" /\ last.key # <<>> /\ LastKeyStored
              /\ SubSeq(saved[last.bucket][last.key].key, 1, 32)
                     = SubSeq(secret, 1, 32)) =>
              (last.err = "nil" /\ last.res = saved[last.bucket][last.key].plain)

\* C7: a record saved while the handle's secret is "" is stored as the bytes
\* that were handed to the engine's caller (raw for SaveBytes, JSON for
\* Save), and GetOne under that secret returns the stored bytes as they are.
EmptySecretStoresRaw ==
    /\ \A b \in DOMAIN store : \A k \in DOMAIN store[b] :
           saved[b][k].key = EffectiveSecret(<<>>) =>
               store[b][k] = saved[b][k].plain
    /\ (secret = EffectiveSecret(<<>>) /\ last.op = "GetOne" /\ last.key # <<>>
           /\ LastKeyStored /\ last.err = "nil") =>
           last.res = store[last.bucket][last.key]

\* C8: GetOne of a non-empty key that is stored, whose record was saved
\* under the handle's present secret, returns without error the bytes last
\* saved under that key (for a call the engine served).
GetOneReturnsLastSaved ==
    (last.op = "GetOne" /\ last.key # <<>> /\ LastKeyStored
        /\ saved[last.bucket][last.key].key = secret) =>
        (last.err = "nil" /\ last.res = saved[last.bucket][last.key].plain)

\* C8 witness: both keys hold different values and GetOne("ta") returned
\* the one saved under "ta"
GetOnePicksItsOwnKey ==
    /\ last.op = "GetOne" /\ last.bucket = "article" /\ last.key = <<116, 97>>
    /\ DOMAIN store["article"] = StoreKeys
    /\ saved["article"][<<116, 97>>].key = secret
    /\ saved["article"][<<116, 97>>].plain # saved["article"][<<116, 97, 121>>].plain
    /\ last.err = "nil"
    /\ last.res = saved["article"][<<116, 97>>].plain

\* C9: decrypting, under the 32-byte key that made it, the payload of
\* Encrypt or the Cipher of Cryptor.Encrypt returns the plaintext and no
\* error.
RoundTrip ==
    /\ (cio.op = "Decrypt" /\ cio.key = cio.pKey /\ Len(cio.key) = 32) =>
           (cio.err = "nil" /\ cio.out = cio.pPlain)
    /\ (cio.op = "Cryptor.Decrypt" /\ cio.key = cio.encKey /\ Len(cio.key) = 32) =>
           (cio.err = "nil" /\ cio.out = cio.encPlain)

\* C9 witness: the empty plaintext came back from Decrypt
RoundTripOfEmpty ==
    /\ cio.op = "Decrypt" /\ cio.key = cio.pKey /\ Len(cio.key) = 32
    /\ cio.pPlain = <<>> /\ cio.err = "nil" /\ cio.out = <<>>


\* the stored key a cursor of last.bucket stops at when it seeks last.key:
\* the smallest stored key that is not below it (no key when there is none)
SoughtKeys ==
    {k \in DOMAIN store[last.bucket] :
        /\ ~LexLess(k, last.key)
        /\ \A o \in DOMAIN store[last.bucket] :
               ~LexLess(o, last.key) => (o = k \/ LexLess(k, o))}

\* C11: GetOne of a non-empty key on an existing bucket is a prefix lookup.
\* When the smallest stored key that is >= the key starts with the key, the
\* call returns that record's value (for a record saved under the handle's
\* present secret); when that stored key does not start with the key, or
\* there is no such key, it returns an empty result and no error.
GetOneIsPrefixLookup ==
    (last.op = "GetOne" /\ last.key # <<>> /\ last.bucket \in DOMAIN store) =>
        LET hit == {k \in SoughtKeys :
                       /\ Len(k) >= Len(last.key)
                       /\ SubSeq(k, 1, Len(last.key)) = last.key}
        IN /\ hit = {} => (last.err = "nil" /\ last.res = <<>>)
           /\ \A k \in hit :
                  saved[last.bucket][k].key = secret =>
                      /\ last.err = "nil"
                      /\ last.res = saved[last.bucket][k].plain

\* C11 witness: GetOne("ta") returned the record stored under "tay" while
\* "ta" itself was not stored
GetOneFoundLongerKey ==
    /\ last.op = "GetOne" /\ last.key = <<116, 97>> /\ last.err = "nil"
    /\ last.bucket \in DOMAIN store
    /\ <<116, 97>> \notin DOMAIN store[last.bucket]
    /\ <<116, 97, 121>> \in DOMAIN store[last.bucket]
    /\ last.res = saved[last.bucket][<<116, 97, 121>>].plain
    /\ last.res # <<>>

\* C12: GetKeyList on an existing bucket returns, without error, exactly the
\* stored keys of the bucket that start with the prefix, each once and in
\* ascending byte order; it reads no value, so it succeeds whatever secret
\* the records were saved under.
GetKeyListExact ==
    (last.op = "GetKeyList" /\ last.bucket \in DOMAIN store) =>
        /\ last.err = "nil"
        /\ {last.res[i] : i \in 1..Len(last.res)}
               = {k \in DOMAIN store[last.bucket] :
                     /\ Len(k) >= Len(last.key)
                     /\ SubSeq(k, 1, Len(last.key)) = last.key}
        /\ \A i, j \in 1..Len(last.res) :
               i < j => LexLess(last.res[i], last.res[j])

\* C12 witness: with "ta", "tay" and "te" stored under a secret the handle
\* no longer has, GetKeyList("ta") returned "ta", "tay"
GetKeyListOfUnreadable ==
    /\ last.op = "GetKeyList" /\ last.key = <<116, 97>>
    /\ last.bucket \in DOMAIN store
    /\ DOMAIN store[last.bucket] = PrefixStoreKeys
    /\ \A k \in PrefixStoreKeys :
           /\ saved[last.bucket][k].key # secret
           /\ Decrypt(store[last.bucket][k], secret).err # "nil"
    /\ last.res = << <<116, 97>>, <<116, 97, 121>> >>

\* the stored keys of last.bucket that start with last.key
KeysWithPrefix ==
    {k \in DOMAIN store[last.bucket] :
        /\ Len(k) >= Len(last.key)
        /\ SubSeq(k, 1, Len(last.key)) = last.key}

\* C13: the scan of GetByPrefix on an existing bucket comes to an end, with
\* a result or a decrypt error, for every bucket content and prefix; when the records that start with the prefix
\* were saved under the handle's present secret the result has no error,
\* its keys are exactly the stored keys that start with the prefix and each
\* is mapped to the bytes saved under it. With the empty prefix that is
\* every record of the bucket: the scan ends at the end of the cursor and
\* drops nothing.
GetByPrefixExact ==
    /\ \A b \in DOMAIN store, p \in PrefixKeys :
           GetByPrefixBody(store, saved, secret, b, p).err
               \in {"nil", "Decrypt error"}
    /\ (last.op = "GetByPrefix" /\ last.bucket \in DOMAIN store
           /\ \A k \in KeysWithPrefix : saved[last.bucket][k].key = secret) =>
           /\ last.err = "nil"
           /\ DOMAIN last.res = KeysWithPrefix
           /\ \A k \in KeysWithPrefix :
                  last.res[k] = saved[last.bucket][k].plain

\* C13 witness: GetByPrefix("") returned all three stored records, holding
\* more than one value
GetByPrefixReturnedAll ==
    /\ last.op = "GetByPrefix" /\ last.key = <<>> /\ last.err = "nil"
    /\ last.bucket \in DOMAIN store
    /\ DOMAIN store[last.bucket] = PrefixStoreKeys
    /\ DOMAIN last.res = PrefixStoreKeys
    /\ last.res[<<116, 97>>] # last.res[<<116, 101>>]

\* C14: a GetByPrefix that fails to decrypt a record returns the error and
\* an empty mapping: none of the records decrypted before the failing one.
NoPartialScanResult ==
    (last.op = "GetByPrefix" /\ last.err = "Decrypt error") => last.res = <<>>

\* C15: SetSecret leaves every stored record's bytes, the batch flag and the
\* connection as they were; and GetOne of a stored key whose record was
\* saved under an effective key other than the handle's present one
\* returns a decrypt error and no bytes.
SetSecretNeverReencrypts ==
    [][/\ last'.op = "SetSecret" =>
              UNCHANGED <<store, batchMode, db, fileLocked>>
       /\ (/\ last'.op = "GetOne" /\ last'.key # <<>>
           /\ last'.bucket \in DOMAIN store'
           /\ last'.key \in DOMAIN store'[last'.bucket]
           /\ saved'[last'.bucket][last'.key].key # secret') =>
              (last'.err = "Decrypt error" /\ last'.res = <<>>)]_vars

\* C15 witness: after a change of secret to another usable key, GetOne of
\* a record saved under the earlier key failed to decrypt, the record's
\* bytes being those the earlier key produced
GetOneAfterRotationFails ==
    /\ last.op = "GetOne" /\ last.key # <<>> /\ LastKeyStored
    /\ saved[last.bucket][last.key].key # secret
    /\ NewCipherOK(secret)
    /\ Decrypt(store[last.bucket][last.key],
               saved[last.bucket][last.key].key).err = "nil"
    /\ last.err = "Decrypt error"

\* C16: Delete of a non-empty key on an existing bucket returns no error
\* whether or not the key is stored, removes that key and leaves every
\* other key (those that start with it included) and every other bucket
\* with the bytes they had; when the key is not stored, as on a second
\* Delete, the store does not change.
DeleteRemovesExactlyKey ==
    [][(last'.op = "Delete" /\ last'.key # <<>>
           /\ last'.bucket \in DOMAIN store) =>
          /\ last'.err = "nil"
          /\ DOMAIN store' = DOMAIN store
          /\ \A b \in DOMAIN store :
                 store'[b] = IF b = last'.bucket
                               THEN [x \in DOMAIN store[b] \ {last'.key}
                                       |-> store[b][x]]
                               ELSE store[b]
          /\ last'.key \notin DOMAIN store[last'.bucket] => store' = store]_vars

\* C16 witness: after Delete("ta") the key "ta" is gone and "tay" is still
\* stored with the bytes saved under it
DeleteKeptLongerKey ==
    /\ last.op = "Delete" /\ last.key = <<116, 97>> /\ last.err = "nil"
    /\ last.bucket \in DOMAIN store
    /\ <<116, 97>> \notin DOMAIN store[last.bucket]
    /\ <<116, 97, 121>> \in DOMAIN store[last.bucket]
    /\ Decrypt(store[last.bucket][<<116, 97, 121>>], secret).plain
           = saved[last.bucket][<<116, 97, 121>>].plain
    /\ Decrypt(store[last.bucket][<<116, 97, 121>>], secret).err = "nil"

\* C17: a Save, SaveBytes or Delete that returns an error (or panics)
\* leaves every bucket with exactly the keys and bytes it had before the
\* call.
WritesAllOrNothing ==
    [][(last'.op \in {"Save", "SaveBytes", "Delete"} /\ last'.err # "nil") =>
          store' = store]_vars

\* C17 witness: a SaveBytes failed to encrypt while a record was stored
FailedSaveBesideRecord ==
    /\ last.op = "SaveBytes" /\ last.err = "Encrypt error"
    /\ \E b \in DOMAIN store : DOMAIN store[b] # {}

\* C20: a Save, SaveBytes or Delete on a bucket that does not exist returns
\* an error (it neither succeeds nor panics) and, with batch mode off,
\* leaves no connection.
MissingBucketIsAnError ==
    (last.op \in {"Save", "SaveBytes", "Delete"}
        /\ last.bucket # "-" /\ last.bucket \notin DOMAIN store) =>
        /\ last.err \notin {"nil", "panic"}
        /\ ~batchMode => db = NoConn

\* C19: nothing guards bl.db between a call's open step and its
\* transaction. The transaction of a goroutine runs on what bl.db holds at
\* that moment: it finds a live connection only if bl.db still refers to
\* one, and after the closeDB of a concurrent SetBatchMode(false) it uses a
\* connection that has been closed, or nil.
TransactionRunsUnguarded ==
    [][\A p \in Procs :
          (pc[p] = "tx" /\ pc'[p] = "closeCheck") =>
              /\ used'[p].tx = "live" <=> db = Conn
              /\ used'[p].tx = "nil" => db = NoConn]_vars

\* C19 witness: the operation of "a" found the batch-mode connection live
\* in openDB, the SetBatchMode(false) of "b" closed it and set bl.db to nil,
\* and the transaction of "a" then dereferenced nil
RaceReachesNilUse ==
    /\ job["a"] = "op" /\ pc["a"] = "closeCheck"
    /\ used["a"].open = "found" /\ used["a"].tx = "nil"
    /\ job["b"] = "batchOff" /\ pc["b"] = "idle"
    /\ db = NoConn /\ ~fileLocked

\* C18: GetDBBytes always returns and reports a failure of the goroutine
\* it started: the caller is never left reading a pipe that the finished
\* goroutine did not close, and a call that has returned carries the error
\* db.View returned in the goroutine.
ExportReturnsAndReports ==
    /\ ~(rpc = "reading" /\ wpc = "done" /\ ~pipe.closed)
    /\ rpc = "returned" => ret.err = pipe.err

\* no transaction and no Close of a call has dereferenced a nil bl.db
NoNilUse ==
    \A p \in Procs : used[p].tx # "nil" /\ used[p].close # "nil"

\* with no call in progress, a connection that holds the file lock is the
\* one bl.db refers to
NoLeakedConnection ==
    (\A p \in Procs : pc[p] = "idle") => (fileLocked => db = Conn)

\* no call waits in bbolt.Open for a lock that no call in progress will
\* release: whenever a call waits there and the file is locked, another
\* call is past its own open
NoOpenBlocked ==
    \A p \in Procs :
        (pc[p] = "engineOpen" /\ fileLocked) =>
            \E q \in Procs \ {p} : pc[q] \notin {"idle", "openCheck", "engineOpen"}

\* C21: two operations running concurrently on the same handle never use
\* a nil connection, never leave an opened connection that bl.db does not
\* refer to, and never leave an open waiting for a file lock that nothing
\* will release, in non-batch mode and in batch mode entered with no live
\* connection.
PairedCallsAreSafe ==
    /\ NoNilUse
    /\ NoLeakedConnection
    /\ NoOpenBlocked

====
